---- MODULE Spec2Model ----
(***************************************************************************)
(* Model of package pull (pull/pull_requests.go): the four queries that    *)
(* look up the open pull requests for a commit SHA or a base ref through   *)
(* a GitHubPullRequestClient, with their pagination loops.                 *)
(*                                                                         *)
(* One step of the model is one iteration of a pagination loop: the        *)
(* request to the remote client, its response, the filtering of the page   *)
(* and either the return of the function (and of its caller, when the call *)
(* was made by GetAllPossibleOpenPullRequestsForSHA) or the advance to the *)
(* next page.  The remote client is not part of the package: each of its   *)
(* responses is a nondeterministic choice.  calls and resps record the     *)
(* requests made and the responses received, in order.                     *)
(***************************************************************************)
EXTENDS Integers, Sequences, FiniteSets, TLC

VARIABLES pc, op, args, opts, results, ret, calls, resps

vars == <<pc, op, args, opts, results, ret, calls, resps>>

----------------------------------------------------------------------------
(* Bounds of the model *)

\* remote requests made during one call
MaxFetches == 3
\* pull request records the remote returns during one call, over all pages
MaxRecords == 2
\* largest next-page number a response carries
MaxNextPage == 2

----------------------------------------------------------------------------
(* Strings that the code takes apart are sequences of characters *)

RefsHeadsPrefix == <<"r","e","f","s","/","h","e","a","d","s","/">>
Main == <<"m","a","i","n">>
Dev == <<"d","e","v">>

\* the refs a caller passes to GetAllOpenPullRequestsForRef
Refs ==
  { Main,
    RefsHeadsPrefix \o Main,
    <<"r","e","f","s","/","h","e","a","d","s">>,
    <<"r","e","f","s","/","t","a","g","s","/","v","1">>,
    RefsHeadsPrefix \o RefsHeadsPrefix \o Dev }

Owners == {"owner"}
Repos == {"repo"}
SHAs == {"sha1", "sha2"}

\* github.PullRequest, the fields the package reads
PullRequests ==
  { [state |-> "open",   head |-> "sha1", base |-> Main],
    [state |-> "closed", head |-> "sha1", base |-> Main],
    [state |-> "open",   head |-> "sha2", base |-> Dev] }

----------------------------------------------------------------------------
(* Go values *)

\* a []*github.PullRequest: the nil slice, or a slice with elements
NilSlice == [isNil |-> TRUE, elems |-> <<>>]

GoLen(s) == Len(s.elems)

\* variant: the append forgets what the slice held
GoAppendOverwrite(s, x) == [isNil |-> FALSE, elems |-> <<x>>]

GoAppend(s, x) == [isNil |-> FALSE, elems |-> Append(s.elems, x)]

\* an error is the sequence of its messages, outermost first; nil is empty
NoErr == <<>>

\* the errors a fetch may return
RemoteErrs == { <<"timeout">>, <<"not found">> }

Wrap(err, msg) == <<msg>> \o err

Wrapf(err, owner, repo) ==
  <<"failed to list pull requests for repository", owner, repo>> \o err

HasPrefix(s, prefix) ==
  /\ Len(s) >= Len(prefix)
  /\ SubSeq(s, 1, Len(prefix)) = prefix

\* variant: strings.TrimLeft, which takes its argument as a set of characters
RECURSIVE TrimLeft(_, _)
TrimLeft(s, cutset) ==
  IF s # <<>> /\ (\E i \in 1..Len(cutset) : cutset[i] = Head(s))
  THEN TrimLeft(Tail(s), cutset)
  ELSE s

TrimPrefix(s, prefix) ==
  IF HasPrefix(s, prefix) THEN SubSeq(s, Len(prefix) + 1, Len(s)) ELSE s

----------------------------------------------------------------------------
(* The request options *)

PerPage == 100

ListOptions == [Page |-> 0, PerPage |-> PerPage]

PullRequestListOptions(base) ==
  [State |-> "open", Base |-> base, Page |-> 0, PerPage |-> PerPage]

\* variant: the next page is counted, not read from the response
NextOptsIncrement(o, resp) == [o EXCEPT !.Page = o.Page + 1]

NextOpts(o, resp) == [o EXCEPT !.Page = resp.NextPage]

----------------------------------------------------------------------------
(* The filters of the loops over one page *)

\* variant: the state is not checked
MatchesCommitAssociationNoState(pr, sha) == pr.head = sha

\* variant: the head SHA is not checked
MatchesCommitAssociationNoSHA(pr, sha) == pr.state = "open"

MatchesCommitAssociation(pr, sha) == pr.state = "open" /\ pr.head = sha

\* variant: the state is checked as in the commit-association search
MatchesSHAScanOpen(pr, sha) == pr.state = "open" /\ pr.head = sha

MatchesSHAScan(pr, sha) == pr.head = sha

RECURSIVE AppendCommitMatches(_, _, _)
AppendCommitMatches(rs, prs, sha) ==
  IF prs = <<>> THEN rs
  ELSE AppendCommitMatches(
         IF MatchesCommitAssociation(Head(prs), sha) THEN GoAppend(rs, Head(prs)) ELSE rs,
         Tail(prs), sha)

RECURSIVE AppendScanMatches(_, _, _)
AppendScanMatches(rs, prs, sha) ==
  IF prs = <<>> THEN rs
  ELSE AppendScanMatches(
         IF MatchesSHAScan(Head(prs), sha) THEN GoAppend(rs, Head(prs)) ELSE rs,
         Tail(prs), sha)

RECURSIVE AppendAll(_, _)
AppendAll(rs, prs) ==
  IF prs = <<>> THEN rs
  ELSE AppendAll(GoAppend(rs, Head(prs)), Tail(prs))

\* variant: the records accumulated so far are returned with the error
ErrorResultPartial(rs) == rs

\* the value returned with an error: nil, whatever rs has accumulated
ErrorResult(rs) == NilSlice

\* the test that ends a pagination loop
LastPage(resp) == resp.NextPage = 0

----------------------------------------------------------------------------
(* The remote client *)

RECURSIVE RecordCount(_)
RecordCount(rsps) ==
  IF rsps = <<>> THEN 0 ELSE Len(Head(rsps).prs) + RecordCount(Tail(rsps))

Pages(n) == UNION { [1..k -> PullRequests] : k \in 0..n }

\* what the remote may answer to one request
Responses ==
  { [prs |-> p, NextPage |-> n, err |-> NoErr] :
      p \in Pages(MaxRecords - RecordCount(resps)), n \in 0..MaxNextPage }
  \cup { [prs |-> <<>>, NextPage |-> 0, err |-> e] : e \in RemoteErrs }

CommitRequest ==
  [method |-> "ListPullRequestsWithCommit", owner |-> args.owner,
   repo |-> args.repo, sha |-> args.sha, opts |-> opts]

ListRequest ==
  [method |-> "List", owner |-> args.owner, repo |-> args.repo, opts |-> opts]

----------------------------------------------------------------------------
(* The state after construction: no call made yet *)

NoArgs == [owner |-> "", repo |-> "", sha |-> "", ref |-> <<>>]

Init ==
  /\ pc = "idle"
  /\ op = "none"
  /\ args = NoArgs
  /\ opts = ListOptions
  /\ results = NilSlice
  /\ ret = [prs |-> NilSlice, err |-> NoErr]
  /\ calls = <<>>
  /\ resps = <<>>

----------------------------------------------------------------------------
(* Entry of each function, up to its loop *)

CallGetOpenPullRequestsForSHA ==
  /\ pc = "idle"
  /\ \E o \in Owners, r \in Repos, s \in SHAs :
       args' = [owner |-> o, repo |-> r, sha |-> s, ref |-> <<>>]
  /\ op' = "getOpenPullRequestsForSHA"
  /\ results' = NilSlice
  /\ opts' = ListOptions
  /\ pc' = "commit"
  /\ UNCHANGED <<ret, calls, resps>>

CallListAllOpenPullRequestsFilteredBySHA ==
  /\ pc = "idle"
  /\ \E o \in Owners, r \in Repos, s \in SHAs :
       args' = [owner |-> o, repo |-> r, sha |-> s, ref |-> <<>>]
  /\ op' = "ListAllOpenPullRequestsFilteredBySHA"
  /\ results' = NilSlice
  /\ opts' = PullRequestListOptions(<<>>)
  /\ pc' = "scan"
  /\ UNCHANGED <<ret, calls, resps>>

CallGetAllPossibleOpenPullRequestsForSHA ==
  /\ pc = "idle"
  /\ \E o \in Owners, r \in Repos, s \in SHAs :
       args' = [owner |-> o, repo |-> r, sha |-> s, ref |-> <<>>]
  /\ op' = "GetAllPossibleOpenPullRequestsForSHA"
  /\ results' = NilSlice
  /\ opts' = ListOptions
  /\ pc' = "commit"
  /\ UNCHANGED <<ret, calls, resps>>

CallGetAllOpenPullRequestsForRef ==
  /\ pc = "idle"
  /\ \E o \in Owners, r \in Repos, f \in Refs :
       /\ args' = [owner |-> o, repo |-> r, sha |-> "", ref |-> f]
       /\ opts' = PullRequestListOptions(TrimPrefix(f, RefsHeadsPrefix))
  /\ op' = "GetAllOpenPullRequestsForRef"
  /\ results' = NilSlice
  /\ pc' = "ref"
  /\ UNCHANGED <<ret, calls, resps>>

----------------------------------------------------------------------------
(* Returns *)

Return(prs, err) ==
  /\ pc' = "done"
  /\ ret' = [prs |-> prs, err |-> err]
  /\ UNCHANGED <<opts, results>>

\* variants: the scan always runs, the scan never runs
NoneFoundAlways(prs) == TRUE

NoneFoundNever(prs) == FALSE

\* the fallback test of GetAllPossibleOpenPullRequestsForSHA
NoneFound(prs) == GoLen(prs) = 0

\* ListAllOpenPullRequestsFilteredBySHA returns (prs, err)
ScanReturns(prs, err) ==
  IF op = "ListAllOpenPullRequestsFilteredBySHA"
  THEN Return(prs, err)
  ELSE IF err # NoErr
       THEN Return(NilSlice, Wrap(err, "failed to list open pull requests matching the SHA"))
       ELSE Return(prs, NoErr)

\* variant: the error of the commit-association search is not checked
CommitReturnsUnchecked(prs, err) ==
  IF op = "getOpenPullRequestsForSHA"
  THEN Return(prs, err)
  ELSE IF NoneFound(prs)
       THEN /\ pc' = "scan"
            /\ results' = NilSlice
            /\ opts' = PullRequestListOptions(<<>>)
            /\ UNCHANGED ret
       ELSE Return(prs, NoErr)

\* getOpenPullRequestsForSHA returns (prs, err)
CommitReturns(prs, err) ==
  IF op = "getOpenPullRequestsForSHA"
  THEN Return(prs, err)
  ELSE IF err # NoErr
       THEN Return(NilSlice, Wrap(err, "failed to get open pull requests matching the SHA"))
       ELSE IF NoneFound(prs)
            THEN /\ pc' = "scan"
                 /\ results' = NilSlice
                 /\ opts' = PullRequestListOptions(<<>>)
                 /\ UNCHANGED ret
            ELSE Return(prs, NoErr)

----------------------------------------------------------------------------
(* One iteration of each pagination loop *)

FetchCommitPage ==
  /\ pc = "commit"
  /\ Len(calls) < MaxFetches
  /\ \E resp \in Responses :
       /\ calls' = Append(calls, CommitRequest)
       /\ resps' = Append(resps, resp)
       /\ IF resp.err # NoErr
          THEN CommitReturns(ErrorResult(results), Wrapf(resp.err, args.owner, args.repo))
          ELSE LET rs == AppendCommitMatches(results, resp.prs, args.sha) IN
               IF LastPage(resp)
               THEN CommitReturns(rs, NoErr)
               ELSE /\ results' = rs
                    /\ opts' = NextOpts(opts, resp)
                    /\ UNCHANGED <<pc, ret>>
  /\ UNCHANGED <<op, args>>

FetchScanPage ==
  /\ pc = "scan"
  /\ Len(calls) < MaxFetches
  /\ \E resp \in Responses :
       /\ calls' = Append(calls, ListRequest)
       /\ resps' = Append(resps, resp)
       /\ IF resp.err # NoErr
          THEN ScanReturns(ErrorResult(results), Wrapf(resp.err, args.owner, args.repo))
          ELSE LET rs == AppendScanMatches(results, resp.prs, args.sha) IN
               IF LastPage(resp)
               THEN ScanReturns(rs, NoErr)
               ELSE /\ results' = rs
                    /\ opts' = NextOpts(opts, resp)
                    /\ UNCHANGED <<pc, ret>>
  /\ UNCHANGED <<op, args>>

FetchRefPage ==
  /\ pc = "ref"
  /\ Len(calls) < MaxFetches
  /\ \E resp \in Responses :
       /\ calls' = Append(calls, ListRequest)
       /\ resps' = Append(resps, resp)
       /\ IF resp.err # NoErr
          THEN Return(ErrorResult(results), Wrapf(resp.err, args.owner, args.repo))
          ELSE LET rs == AppendAll(results, resp.prs) IN
               IF LastPage(resp)
               THEN Return(rs, NoErr)
               ELSE /\ results' = rs
                    /\ opts' = NextOpts(opts, resp)
                    /\ UNCHANGED <<pc, ret>>
  /\ UNCHANGED <<op, args>>

Next ==
  \/ CallGetOpenPullRequestsForSHA
  \/ CallListAllOpenPullRequestsFilteredBySHA
  \/ CallGetAllPossibleOpenPullRequestsForSHA
  \/ CallGetAllOpenPullRequestsForRef
  \/ FetchCommitPage
  \/ FetchScanPage
  \/ FetchRefPage

Spec == Init /\ [][Next]_vars

----------------------------------------------------------------------------
(* What the requests and responses recorded so far say, read from calls   *)
(* and resps alone                                                         *)

Commit == "ListPullRequestsWithCommit"
List == "List"

CallsOf(m) == { i \in 1..Len(calls) : calls[i].method = m }

\* the responses to the requests of method m, in order
RECURSIVE RespsFrom(_, _)
RespsFrom(m, i) ==
  IF i > Len(resps) THEN <<>>
  ELSE (IF calls[i].method = m THEN <<resps[i]>> ELSE <<>>) \o RespsFrom(m, i + 1)

\* the records of the pages, page after page
RECURSIVE Concat(_)
Concat(rsps) ==
  IF rsps = <<>> THEN <<>> ELSE Head(rsps).prs \o Concat(Tail(rsps))

Records(m) == Concat(RespsFrom(m, 1))

Range(seq) == { seq[i] : i \in 1..Len(seq) }

OpenWithSHA(pr) == pr.state = "open" /\ pr.head = args.sha
WithSHA(pr) == pr.head = args.sha

CommitFound == SelectSeq(Records(Commit), OpenWithSHA)
ScanFound == SelectSeq(Records(List), WithSHA)

\* a fetch of method m returned an error
Failed(m) == \E i \in CallsOf(m) : resps[i].err # NoErr

\* the search of method m received its last page
Completed(m) == \E i \in CallsOf(m) : resps[i].err = NoErr /\ resps[i].NextPage = 0

Composed == op = "GetAllPossibleOpenPullRequestsForSHA"

\* err wraps cause: cause is what remains under the messages added to it
Wraps(err, cause) ==
  /\ Len(err) > Len(cause)
  /\ SubSeq(err, Len(err) - Len(cause) + 1, Len(err)) = cause

DirectOps ==
  { "getOpenPullRequestsForSHA", "ListAllOpenPullRequestsFilteredBySHA",
    "GetAllOpenPullRequestsForRef" }

NoFetchFailed == \A i \in 1..Len(resps) : resps[i].err = NoErr

----------------------------------------------------------------------------
(* C1 *)

\* C1: in GetAllPossibleOpenPullRequestsForSHA, once the commit-association
\* search has succeeded with at least one matching pull request, List is
\* never called, the call has returned, and it returned exactly the matches
\* of the commit-association search with no error.
C1_NoScanWhenAssociationFinds ==
  (Composed /\ Completed(Commit) /\ ~Failed(Commit) /\ CommitFound # <<>>)
    => /\ CallsOf(List) = {}
       /\ pc = "done"
       /\ ret.err = NoErr
       /\ ret.prs.elems = CommitFound

C1_Witness ==
  /\ Composed /\ pc = "done" /\ ret.err = NoErr
  /\ Len(calls) = 2
  /\ Len(CommitFound) = 2
  /\ Len(Records(Commit)) = 2

----------------------------------------------------------------------------
(* C2 *)

\* a List request that begins a pagination: the first List request, or one
\* made after a List response that ended the pagination before it
ScanStarts ==
  { j \in CallsOf(List) :
      \/ j - 1 \notin CallsOf(List)
      \/ resps[j - 1].err # NoErr
      \/ resps[j - 1].NextPage = 0 }

\* C2: in GetAllPossibleOpenPullRequestsForSHA, once the commit-association
\* search has completed without error and with no match, the scan is
\* invoked, once, every request of it comes after every request of the
\* commit-association search, and when the scan has completed the call
\* returns exactly the matches of the scan with no error (an empty sequence
\* when the scan found nothing); a failed scan returns an error.
C2_FallbackScanOnce ==
  (Composed /\ Completed(Commit) /\ ~Failed(Commit) /\ CommitFound = <<>>)
    => /\ pc \in {"scan", "done"}
       /\ \A i \in CallsOf(Commit), j \in CallsOf(List) : i < j
       /\ Cardinality(ScanStarts) <= 1
       /\ \A j \in ScanStarts : calls[j].opts.Page = 0
       /\ pc = "done" =>
            /\ Cardinality(ScanStarts) = 1
            /\ IF Failed(List)
               THEN ret.err # NoErr /\ ret.prs = NilSlice
               ELSE /\ ret.err = NoErr
                    /\ ret.prs.elems = ScanFound
                    /\ Completed(List)

C2_Witness ==
  /\ Composed /\ pc = "done" /\ ret.err = NoErr
  /\ CallsOf(Commit) = {1}
  /\ CallsOf(List) = {2, 3}
  /\ Len(ScanFound) = 2
  /\ ret.prs.elems = ScanFound

----------------------------------------------------------------------------
(* C3 *)

\* C3: in GetAllPossibleOpenPullRequestsForSHA, once a page fetch of the
\* commit-association search has returned an error, the call has returned
\* a nil result with an error that wraps the error of the fetch, and List
\* is not called.
C3_AssociationErrorShortCircuits ==
  (Composed /\ Failed(Commit))
    => /\ pc = "done"
       /\ ret.prs = NilSlice
       /\ \A i \in CallsOf(Commit) :
            resps[i].err # NoErr => Wraps(ret.err, resps[i].err)
       /\ CallsOf(List) = {}

C3_Witness ==
  /\ Composed /\ pc = "done"
  /\ Len(calls) = 2
  /\ resps[1].prs # <<>>
  /\ resps[2].err = <<"timeout">>
  /\ ret.err # NoErr

----------------------------------------------------------------------------
(* C4 *)

\* C4: in each of the four operations, a page fetch that returned an error
\* is the last fetch of the call, and the call has returned a nil result
\* with an error; a result returned with an error is always nil, also when
\* earlier pages had contributed matching records.
C4_ErrorAbortsWithNil ==
  /\ \A i \in 1..Len(resps) :
       resps[i].err # NoErr
         => /\ i = Len(resps)
            /\ i = Len(calls)
            /\ pc = "done"
            /\ ret.prs = NilSlice
            /\ ret.err # NoErr
  /\ ret.err # NoErr => ret.prs.isNil /\ ret.prs.elems = <<>>

C4_Witness ==
  /\ pc = "done"
  /\ Len(resps) = 3
  /\ resps[3].err # NoErr
  /\ results.elems # <<>>
  /\ ret.prs = NilSlice

----------------------------------------------------------------------------
(* C5 *)

\* the records an operation called directly is to return
Expected ==
  CASE op = "getOpenPullRequestsForSHA" -> CommitFound
    [] op = "ListAllOpenPullRequestsFilteredBySHA" -> ScanFound
    [] op = "GetAllOpenPullRequestsForRef" -> Records(List)

\* C5: in each paginating operation, when no fetch fails, no fetch is made
\* after a response with NextPage = 0, the operation returns with the first
\* such response (N fetches for N pages), and it returns the matching
\* records of all the pages, in page order and then in the order within
\* the page.
C5_Pagination ==
  (op \in DirectOps /\ NoFetchFailed)
    => /\ Len(calls) = Len(resps)
       /\ \A i \in 1..(Len(resps) - 1) : resps[i].NextPage # 0
       /\ pc = "done" <=> (resps # <<>> /\ resps[Len(resps)].NextPage = 0)
       /\ pc = "done" => ret.err = NoErr /\ ret.prs.elems = Expected

C5_Witness ==
  /\ op \in DirectOps /\ pc = "done" /\ ret.err = NoErr
  /\ Len(calls) = 3
  /\ resps[1].prs # <<>>
  /\ resps[3].prs # <<>>
  /\ Len(ret.prs.elems) = 2
  /\ ret.prs.elems[1] # ret.prs.elems[2]

----------------------------------------------------------------------------
(* C6 *)

\* C6: getOpenPullRequestsForSHA returns a record if and only if the remote
\* returned it on some page, its state is "open" and its head SHA is the
\* requested SHA.
C6_AssociationFilter ==
  (op = "getOpenPullRequestsForSHA" /\ pc = "done" /\ ret.err = NoErr)
    => \A pr \in PullRequests :
         pr \in Range(ret.prs.elems)
           <=> /\ pr \in Range(Records(Commit))
               /\ pr.state = "open"
               /\ pr.head = args.sha

C6_Witness ==
  /\ op = "getOpenPullRequestsForSHA" /\ pc = "done" /\ ret.err = NoErr
  /\ \E pr \in Range(Records(Commit)) : pr.state # "open" /\ pr.head = args.sha
  /\ Len(ret.prs.elems) = 1

----------------------------------------------------------------------------
(* C7 *)

StartsWithRefsHeads(ref) ==
  /\ Len(ref) >= 11
  /\ <<ref[1], ref[2], ref[3], ref[4], ref[5]>> = <<"r","e","f","s","/">>
  /\ <<ref[6], ref[7], ref[8], ref[9], ref[10], ref[11]>> = <<"h","e","a","d","s","/">>

\* C7: every request of GetAllOpenPullRequestsForRef carries state "open"
\* and a base that is ref without its leading "refs/heads/" when ref starts
\* with it, and ref itself otherwise; the records the remote returns are
\* all returned, unfiltered.
C7_RefQuery ==
  op = "GetAllOpenPullRequestsForRef"
    => /\ \A i \in 1..Len(calls) :
            /\ calls[i].method = List
            /\ calls[i].opts.State = "open"
            /\ IF StartsWithRefsHeads(args.ref)
               THEN <<"r","e","f","s","/","h","e","a","d","s","/">> \o calls[i].opts.Base = args.ref
               ELSE calls[i].opts.Base = args.ref
       /\ (pc = "done" /\ ret.err = NoErr) => ret.prs.elems = Records(List)

C7_Witness ==
  /\ op = "GetAllOpenPullRequestsForRef" /\ pc = "done" /\ ret.err = NoErr
  /\ args.ref = <<"r","e","f","s","/","h","e","a","d","s","/","m","a","i","n">>
  /\ Len(calls) = 2
  /\ calls[2].opts.Base = <<"m","a","i","n">>
  /\ \E pr \in Range(ret.prs.elems) : pr.base # <<"m","a","i","n">>
  /\ \E pr \in Range(ret.prs.elems) : pr.state # "open"

----------------------------------------------------------------------------
(* C8 *)

\* C8: ListAllOpenPullRequestsFilteredBySHA returns a record if and only if
\* the remote returned it on some page and its head SHA is the requested
\* SHA, whatever its state; every request carries state "open".
C8_ScanFilter ==
  op = "ListAllOpenPullRequestsFilteredBySHA"
    => /\ \A i \in 1..Len(calls) :
            calls[i].method = List /\ calls[i].opts.State = "open"
       /\ (pc = "done" /\ ret.err = NoErr)
            => \A pr \in PullRequests :
                 pr \in Range(ret.prs.elems)
                   <=> (pr \in Range(Records(List)) /\ pr.head = args.sha)

C8_Witness ==
  /\ op = "ListAllOpenPullRequestsFilteredBySHA" /\ pc = "done" /\ ret.err = NoErr
  /\ \E pr \in Range(ret.prs.elems) : pr.state = "closed"
  /\ \E pr \in Range(Records(List)) : pr.head # args.sha

----------------------------------------------------------------------------
(* C9 *)

\* request i is the first of its pagination loop
FirstOfLoop(i) == i = 1 \/ calls[i - 1].method # calls[i].method

\* C9: every request is made after the response to the request before it;
\* it carries page size 100 and the owner and repo of the call; the first
\* request of a loop leaves the page unset (0), and each later one asks for
\* the NextPage of the response just before it, with the filter arguments
\* (sha, or state and base) of the request before it.
C9_SequentialRequests ==
  /\ Len(resps) = Len(calls)
  /\ \A i \in 1..Len(calls) :
       /\ calls[i].opts.PerPage = 100
       /\ calls[i].owner = args.owner
       /\ calls[i].repo = args.repo
       /\ IF FirstOfLoop(i)
          THEN calls[i].opts.Page = 0
          ELSE /\ calls[i].opts.Page = resps[i - 1].NextPage
               /\ resps[i - 1].err = NoErr
               /\ IF calls[i].method = Commit
                  THEN calls[i].sha = calls[i - 1].sha
                  ELSE /\ calls[i].opts.State = calls[i - 1].opts.State
                       /\ calls[i].opts.Base = calls[i - 1].opts.Base

C9_Witness ==
  /\ Len(calls) = 3
  /\ calls[1].method = calls[3].method
  /\ calls[1].opts.Page = 0
  /\ calls[2].opts.Page = 2
  /\ calls[3].opts.Page = 1

----------------------------------------------------------------------------
(* C10 *)

\* C10: GetAllPossibleOpenPullRequestsForSHA decides on the fallback by the
\* records that pass the filter of the commit-association search: when the
\* remote returned records but none is open with the requested head SHA,
\* the scan is invoked; and every pull request of a result returned without
\* error has the requested head SHA.
C10_FallbackOnFilteredCount ==
  Composed
    => /\ (Completed(Commit) /\ ~Failed(Commit)
             /\ Records(Commit) # <<>> /\ CommitFound = <<>>)
            => (pc = "scan" \/ (pc = "done" /\ CallsOf(List) # {}))
       /\ (pc = "done" /\ ret.err = NoErr)
            => \A pr \in Range(ret.prs.elems) : pr.head = args.sha

C10_Witness ==
  /\ Composed /\ pc = "done" /\ ret.err = NoErr
  /\ Records(Commit) # <<>>
  /\ CommitFound = <<>>
  /\ ret.prs.elems # <<>>

====
